---- MODULE Spec2Model ----
(***************************************************************************)
(* Model of src/parser.py: parse_pnml builds a PetriNet from the place,    *)
(* transition and arc elements of a PNML document, finalize_structure      *)
(* fixes the place order, and compute_explicit_reachability explores the   *)
(* markings of the 1-safe net breadth-first.                               *)
(*                                                                         *)
(* Identifiers are strings in the program; here they are naturals, and the *)
(* lexicographic order used by sorted() is the order of the naturals.      *)
(* A marking tuple is a sequence; Python position k is TLA+ position k+1.  *)
(***************************************************************************)
EXTENDS Integers, Sequences, FiniteSets

\* ---------------------------------------------------------------- bounds
NumPlaceIds == 2      \* distinct place identifiers a document may use
NumTransIds == 2      \* distinct transition identifiers a document may use
MaxArcs == 2          \* <arc> elements in a document

\* ------------------------------------------------------------ input alphabet
NoId == 0             \* a missing or empty attribute (falsy in Python)
PlaceIdPool == 1..NumPlaceIds
TransIdPool == (NumPlaceIds + 1)..(NumPlaceIds + NumTransIds)
UnknownId == NumPlaceIds + NumTransIds + 1
SomeArcId == UnknownId + 1
EndpointIds == {NoId} \cup PlaceIdPool \cup TransIdPool \cup {UnknownId}
\* <arc> elements as (id, source, target): every pair of endpoints for an arc
\* that has an id, and one arc that has none.
ArcElems == {<<SomeArcId, s, t>> : s \in EndpointIds, t \in EndpointIds}
            \cup {<<NoId, UnknownId, UnknownId>>}
MaxPlaceElems == NumPlaceIds + 1
MaxTransElems == NumTransIds + 1
\* int(marking_node.text): 0, 1, or some other integer
InitialMarkingTexts == {0, 1, 2}

VARIABLES
    pc,                  \* position in parse_pnml / compute_explicit_reachability
    i,                   \* elements consumed by the current parsing loop
    elem,                \* id attribute read by the place / transition loop
    out,                 \* the last line printed, by kind
    places,              \* net.places: place id -> initial_marking
    place_keys,          \* the keys of net.places, in dict (insertion) order
    transitions,         \* net.transitions, in dict (insertion) order
    sorted_place_ids,    \* net.sorted_place_ids
    place_id_to_index,   \* net.place_id_to_index
    visited_markings,    \* visited_markings of compute_explicit_reachability
    queue,               \* queue of compute_explicit_reachability
    discovered,          \* the markings appended to queue so far, in order
    expanded,            \* the markings popped from queue so far, in order
    dfs_pc,              \* position of the depth-first variant of the explorer
    dfs_visited,         \* its visited set
    dfs_stack,           \* its frontier
    dfs_discovered,      \* the markings appended to its frontier, in order
    dfs_expanded         \* the markings popped from its frontier, in order

vars == <<pc, i, elem, out, places, place_keys, transitions, sorted_place_ids, place_id_to_index,
          visited_markings, queue, discovered, expanded,
          dfs_pc, dfs_visited, dfs_stack, dfs_discovered, dfs_expanded>>

netVars == <<places, place_keys, transitions, sorted_place_ids, place_id_to_index>>
parseVars == <<i, elem, out>>
bfsVars == <<visited_markings, queue, discovered, expanded>>
dfsVars == <<dfs_pc, dfs_visited, dfs_stack, dfs_discovered, dfs_expanded>>

\* ------------------------------------------------------------- data model
Transition(trans_id) == [id |-> trans_id, inputs |-> <<>>, outputs |-> <<>>]

TransKeys(ts) == {ts[k].id : k \in DOMAIN ts}

TransPos(ts, trans_id) == CHOOSE k \in DOMAIN ts : ts[k].id = trans_id

\* net.transitions[trans_id] = Transition(trans_id): a new key goes to the end
\* of the dict, an existing key keeps its position and gets the new value.
StoreTransition(ts, trans_id) ==
    IF trans_id \in TransKeys(ts)
    THEN [ts EXCEPT ![TransPos(ts, trans_id)] = Transition(trans_id)]
    ELSE Append(ts, Transition(trans_id))

\* net.places[place_id] = Place(place_id, initial_marking)
StorePlace(ps, place_id, initial_marking) ==
    [p \in DOMAIN ps \cup {place_id} |->
        IF p = place_id THEN initial_marking ELSE ps[p]]

\* The keys of net.places after the same assignment: a new key goes to the end
\* of the dict, an existing key keeps its position.
StoreKey(keys, place_id) ==
    IF \E k \in DOMAIN keys : keys[k] = place_id THEN keys
    ELSE Append(keys, place_id)

\* -------------------------------------------------------------- parse_pnml
\* Variant: the target id is not looked up before the arc is classified.
ArcOutcome_NoTargetCheck(ps, ts, arc_id, source_id, target_id) ==
    IF arc_id = NoId \/ source_id = NoId \/ target_id = NoId THEN "incomplete"
    ELSE IF source_id \notin DOMAIN ps /\ source_id \notin TransKeys(ts)
        THEN "unknown_source"
    ELSE IF source_id \in DOMAIN ps /\ target_id \in TransKeys(ts) THEN "input"
    ELSE IF source_id \in TransKeys(ts) /\ target_id \in DOMAIN ps THEN "output"
    ELSE "invalid"

\* Variant: an arc into a transition is taken as an input arc whatever its
\* source is.
ArcOutcome_SourceKindUnchecked(ps, ts, arc_id, source_id, target_id) ==
    IF arc_id = NoId \/ source_id = NoId \/ target_id = NoId THEN "incomplete"
    ELSE IF source_id \notin DOMAIN ps /\ source_id \notin TransKeys(ts)
        THEN "unknown_source"
    ELSE IF target_id \notin DOMAIN ps /\ target_id \notin TransKeys(ts)
        THEN "unknown_target"
    ELSE IF target_id \in TransKeys(ts) THEN "input"
    ELSE IF source_id \in TransKeys(ts) /\ target_id \in DOMAIN ps THEN "output"
    ELSE "invalid"

\* The branch of the arc loop body taken for one arc element.
ArcOutcome(ps, ts, arc_id, source_id, target_id) ==
    IF arc_id = NoId \/ source_id = NoId \/ target_id = NoId THEN "incomplete"
    ELSE IF source_id \notin DOMAIN ps /\ source_id \notin TransKeys(ts)
        THEN "unknown_source"
    ELSE IF target_id \notin DOMAIN ps /\ target_id \notin TransKeys(ts)
        THEN "unknown_target"
    ELSE IF source_id \in DOMAIN ps /\ target_id \in TransKeys(ts) THEN "input"
    ELSE IF source_id \in TransKeys(ts) /\ target_id \in DOMAIN ps THEN "output"
    ELSE "invalid"

\* The transition table after the arc loop body has run for one arc element.
ConnectArc(ps, ts, arc_id, source_id, target_id) ==
    LET outcome == ArcOutcome(ps, ts, arc_id, source_id, target_id) IN
    IF outcome = "input"
    THEN LET k == TransPos(ts, target_id) IN
         [ts EXCEPT ![k].inputs = Append(@, source_id)]
    ELSE IF outcome = "output"
    THEN LET k == TransPos(ts, source_id) IN
         [ts EXCEPT ![k].outputs = Append(@, target_id)]
    ELSE ts

\* What the arc loop body prints for one arc element: a warning or an error
\* when it skips the arc, nothing (the last line stays) when it connects it.
ArcMessage(ps, ts, arc_id, source_id, target_id, last) ==
    LET outcome == ArcOutcome(ps, ts, arc_id, source_id, target_id) IN
    IF outcome \in {"input", "output"} THEN last ELSE outcome

\* ET.parse, getroot and the search for the <net> element.
OpenDocument ==
    /\ pc = "start"
    /\ \E outcome \in {"ok", "parse_error", "file_not_found", "no_net"} :
         /\ pc' = IF outcome = "ok" THEN "places" ELSE "returned_none"
         /\ out' = IF outcome = "ok" THEN out ELSE outcome
    /\ UNCHANGED <<i, elem, netVars, bfsVars, dfsVars>>

\* The body of the loop over the <place> elements, for one element.
PlaceElement(place_id, initial_marking) ==
    /\ pc = "places"
    /\ i < MaxPlaceElems
    /\ elem' = place_id
    /\ places' = IF place_id = NoId THEN places
                 ELSE StorePlace(places, place_id, initial_marking)
    /\ place_keys' = IF place_id = NoId THEN place_keys
                     ELSE StoreKey(place_keys, place_id)
    /\ i' = i + 1
    /\ UNCHANGED <<pc, out, transitions, sorted_place_ids, place_id_to_index,
                   bfsVars, dfsVars>>

\* The ids a <place> element may carry next when the places of a document
\* arrive in ascending order of their ids: no id, an id met before, or an id
\* above all those met before.
AscendingPlaceIds(keys) ==
    {NoId} \cup {keys[k] : k \in DOMAIN keys}
           \cup {p \in PlaceIdPool : \A k \in DOMAIN keys : keys[k] < p}

\* One iteration of the loop over the <place> elements, the places arriving
\* in ascending order. The program reads the order of arrival only in
\* finalize_structure and get_initial_marking_tuple; documents with any order
\* of arrival are the subject of ParsePlaceAnyOrder and SpecArrival.
ParsePlace ==
    \E place_id \in AscendingPlaceIds(place_keys),
       initial_marking \in InitialMarkingTexts :
        PlaceElement(place_id, initial_marking)

\* One iteration of the loop over the <place> elements, the places arriving
\* in any order.
ParsePlaceAnyOrder ==
    \E place_id \in {NoId} \cup PlaceIdPool,
       initial_marking \in InitialMarkingTexts :
        PlaceElement(place_id, initial_marking)

EndPlaces ==
    /\ pc = "places"
    /\ pc' = "transitions"
    /\ i' = 0
    /\ elem' = NoId
    /\ UNCHANGED <<out, netVars, bfsVars, dfsVars>>

\* The ids a <transition> element may carry next. Transition ids are names
\* only (nothing orders or compares them but equality), so a document is
\* taken up to renaming: its k-th new transition id is the k-th id of the pool.
NextTransIds(ts) ==
    {NoId} \cup TransKeys(ts) \cup (TransIdPool \cap {NumPlaceIds + Len(ts) + 1})

\* One iteration of the loop over the <transition> elements.
ParseTransition ==
    /\ pc = "transitions"
    /\ i < MaxTransElems
    /\ \E trans_id \in NextTransIds(transitions) :
         /\ elem' = trans_id
         /\ transitions' = IF trans_id = NoId THEN transitions
                           ELSE StoreTransition(transitions, trans_id)
    /\ i' = i + 1
    /\ UNCHANGED <<pc, out, places, place_keys, sorted_place_ids,
                   place_id_to_index, bfsVars, dfsVars>>

EndTransitions ==
    /\ pc = "transitions"
    /\ pc' = "arcs"
    /\ i' = 0
    /\ elem' = NoId
    /\ UNCHANGED <<out, netVars, bfsVars, dfsVars>>

\* One iteration of the loop over the <arc> elements.
ParseArc ==
    /\ pc = "arcs"
    /\ i < MaxArcs
    /\ \E arc_elem \in ArcElems :
         LET arc_id == arc_elem[1]
             source_id == arc_elem[2]
             target_id == arc_elem[3]
         IN /\ transitions' =
                   ConnectArc(places, transitions, arc_id, source_id, target_id)
            /\ out' = ArcMessage(places, transitions, arc_id, source_id,
                                 target_id, out)
    /\ i' = i + 1
    /\ UNCHANGED <<pc, elem, places, place_keys, sorted_place_ids,
                   place_id_to_index, bfsVars, dfsVars>>

\* ------------------------------------------------------ finalize_structure
\* One key put at its place in an ascending list.
RECURSIVE Insert(_, _)
Insert(ids, pid) ==
    IF ids = <<>> THEN <<pid>>
    ELSE IF pid <= Head(ids) THEN <<pid>> \o ids
    ELSE <<Head(ids)>> \o Insert(Tail(ids), pid)

\* Variant: the keys are left in the order of arrival.
sorted_ArrivalOrder(keys) == keys

\* sorted(keys): the keys, taken in the order given, in ascending order.
RECURSIVE sorted(_)
sorted(keys) == IF keys = <<>> THEN <<>>
                ELSE Insert(sorted(SubSeq(keys, 1, Len(keys) - 1)), keys[Len(keys)])

\* Variant: the positions are counted from 1.
Enumerate_FromOne(ids) ==
    [pid \in {ids[k] : k \in DOMAIN ids} |->
        CHOOSE k \in DOMAIN ids : ids[k] = pid]

\* {pid: i for i, pid in enumerate(ids)}
Enumerate(ids) ==
    [pid \in {ids[k] : k \in DOMAIN ids} |->
        (CHOOSE k \in DOMAIN ids : ids[k] = pid) - 1]

\* The end of the arc loop, finalize_structure and the return of the net.
FinalizeStructure ==
    /\ pc = "arcs"
    /\ pc' = "parsed"
    /\ i' = 0
    /\ out' = "finalized"
    /\ sorted_place_ids' = sorted(place_keys)
    /\ place_id_to_index' = Enumerate(sorted_place_ids')
    /\ UNCHANGED <<elem, places, place_keys, transitions, bfsVars, dfsVars>>

\* ------------------------------------------------------- PetriNet methods
\* for place_id, place_obj in self.places.items(): set the bit of a place
\* whose initial_marking is 1, the places taken in the order of the keys.
RECURSIVE SetInitialBits(_, _)
SetInitialBits(marking, keys) ==
    IF keys = <<>> THEN marking
    ELSE LET place_id == Head(keys) IN
         SetInitialBits(
             IF places[place_id] = 1
             THEN [marking EXCEPT ![place_id_to_index[place_id] + 1] = 1]
             ELSE marking,
             Tail(keys))

\* Variant: the bits are laid out in the order of the keys of net.places.
get_initial_marking_tuple_KeyOrder ==
    [k \in 1..Len(place_keys) |-> IF places[place_keys[k]] = 1 THEN 1 ELSE 0]

\* Variant: the stored initial_marking is copied into the tuple as it is.
get_initial_marking_tuple_Raw ==
    [k \in 1..Len(sorted_place_ids) |-> places[sorted_place_ids[k]]]

get_initial_marking_tuple ==
    SetInitialBits([k \in 1..Len(sorted_place_ids) |-> 0], place_keys)

\* The inner loop of get_enabled_transitions, with its break.
RECURSIVE InputsMarked(_, _)
InputsMarked(marking_tuple, inputs) ==
    IF inputs = <<>> THEN TRUE
    ELSE IF marking_tuple[place_id_to_index[Head(inputs)] + 1] = 0 THEN FALSE
    ELSE InputsMarked(marking_tuple, Tail(inputs))

\* Variant: a transition without input places is never returned.
get_enabled_transitions_NeedsInput(marking_tuple) ==
    SelectSeq(transitions,
              LAMBDA trans :
                  /\ trans.inputs # <<>>
                  /\ InputsMarked(marking_tuple, trans.inputs))

\* Variant: a transition also needs every output place to be empty.
get_enabled_transitions_Capacity(marking_tuple) ==
    SelectSeq(transitions,
              LAMBDA trans :
                  /\ InputsMarked(marking_tuple, trans.inputs)
                  /\ \A k \in DOMAIN trans.outputs :
                        marking_tuple[place_id_to_index[trans.outputs[k]] + 1] = 0)

\* Variant: every transition is returned, enabled or not.
get_enabled_transitions_All(marking_tuple) == transitions

get_enabled_transitions(marking_tuple) ==
    SelectSeq(transitions, LAMBDA trans : InputsMarked(marking_tuple, trans.inputs))

\* for place in place_list: new_marking_list[index] = bit
RECURSIVE WriteAll(_, _, _)
WriteAll(marking, place_list, bit) ==
    IF place_list = <<>> THEN marking
    ELSE WriteAll([marking EXCEPT ![place_id_to_index[Head(place_list)] + 1] = bit],
                  Tail(place_list), bit)

\* Variant: the new list starts empty instead of as a copy of the marking.
fire_transition_FromZero(marking_tuple, transition) ==
    WriteAll([k \in DOMAIN marking_tuple |-> 0], transition.outputs, 1)

\* Variant: the outputs are set before the inputs are cleared.
fire_transition_OutputsFirst(marking_tuple, transition) ==
    WriteAll(WriteAll(marking_tuple, transition.outputs, 1), transition.inputs, 0)

\* Variant: a token is added to each output place instead of the bit being set.
fire_transition_Add(marking_tuple, transition) ==
    LET cleared == WriteAll(marking_tuple, transition.inputs, 0) IN
    [k \in DOMAIN cleared |->
        cleared[k] + Cardinality({j \in DOMAIN transition.outputs :
                        place_id_to_index[transition.outputs[j]] + 1 = k})]

fire_transition(marking_tuple, transition) ==
    WriteAll(WriteAll(marking_tuple, transition.inputs, 0), transition.outputs, 1)

\* ------------------------------------------ compute_explicit_reachability
\* Variant: the newest marking of the queue is taken.
PopLeft_Newest(q) == [item |-> q[Len(q)], rest |-> SubSeq(q, 1, Len(q) - 1)]

\* queue.popleft()
PopLeft(q) == [item |-> Head(q), rest |-> Tail(q)]

\* The same explorer taking the newest marking: pop() instead of popleft().
Pop(q) == [item |-> q[Len(q)], rest |-> SubSeq(q, 1, Len(q) - 1)]

\* Variant: the for loop stops after the first enabled transition.
Expand_FirstOnly(current_marking, enabled, visited, frontier, order) ==
    IF enabled = <<>>
    THEN [visited |-> visited, frontier |-> frontier, order |-> order]
    ELSE LET next_marking == fire_transition(current_marking, Head(enabled)) IN
         IF next_marking \notin visited
         THEN [visited |-> visited \cup {next_marking},
               frontier |-> Append(frontier, next_marking),
               order |-> Append(order, next_marking)]
         ELSE [visited |-> visited, frontier |-> frontier, order |-> order]

\* Variant: a new successor replaces the visited set instead of joining it.
RECURSIVE Expand_Assign(_, _, _, _, _)
Expand_Assign(current_marking, enabled, visited, frontier, order) ==
    IF enabled = <<>>
    THEN [visited |-> visited, frontier |-> frontier, order |-> order]
    ELSE LET next_marking == fire_transition(current_marking, Head(enabled)) IN
         IF next_marking \notin visited
         THEN Expand_Assign(current_marking, Tail(enabled),
                            {next_marking},
                            Append(frontier, next_marking),
                            Append(order, next_marking))
         ELSE Expand_Assign(current_marking, Tail(enabled), visited, frontier,
                            order)

\* Variant: a successor is appended without looking it up in the visited set.
RECURSIVE Expand_NoVisitedCheck(_, _, _, _, _)
Expand_NoVisitedCheck(current_marking, enabled, visited, frontier, order) ==
    IF enabled = <<>>
    THEN [visited |-> visited, frontier |-> frontier, order |-> order]
    ELSE LET next_marking == fire_transition(current_marking, Head(enabled)) IN
         Expand_NoVisitedCheck(current_marking, Tail(enabled),
                               visited \cup {next_marking},
                               Append(frontier, next_marking),
                               Append(order, next_marking))

\* The for loop over the enabled transitions of current_marking.
RECURSIVE Expand(_, _, _, _, _)
Expand(current_marking, enabled, visited, frontier, order) ==
    IF enabled = <<>>
    THEN [visited |-> visited, frontier |-> frontier, order |-> order]
    ELSE LET next_marking == fire_transition(current_marking, Head(enabled)) IN
         IF next_marking \notin visited
         THEN Expand(current_marking, Tail(enabled),
                     visited \cup {next_marking},
                     Append(frontier, next_marking),
                     Append(order, next_marking))
         ELSE Expand(current_marking, Tail(enabled), visited, frontier, order)

StartExploration ==
    /\ pc = "parsed"
    /\ pc' = "loop"
    /\ queue' = <<get_initial_marking_tuple>>
    /\ visited_markings' = {get_initial_marking_tuple}
    /\ discovered' = <<get_initial_marking_tuple>>
    /\ expanded' = <<>>
    /\ out' = "starting"
    /\ UNCHANGED <<i, elem, netVars, dfsVars>>

\* One iteration of `while queue:`.
LoopIteration ==
    /\ pc = "loop"
    /\ queue # <<>>
    /\ LET popped == PopLeft(queue)
           after == Expand(popped.item, get_enabled_transitions(popped.item),
                           visited_markings, popped.rest, discovered)
       IN /\ visited_markings' = after.visited
          /\ queue' = after.frontier
          /\ discovered' = after.order
          /\ expanded' = Append(expanded, popped.item)
    /\ UNCHANGED <<pc, parseVars, netVars, dfsVars>>

\* Variant: the loop has no exit; with the queue empty it spins.
LoopExit_Spin ==
    /\ pc = "loop"
    /\ queue = <<>>
    /\ UNCHANGED vars

\* Variant: the loop may be left while the queue still holds markings.
LoopExit_Early ==
    /\ pc = "loop"
    /\ pc' = "done"
    /\ out' = "complete"
    /\ UNCHANGED <<i, elem, netVars, bfsVars, dfsVars>>

\* The loop test fails: the visited set is returned.
LoopExit ==
    /\ pc = "loop"
    /\ queue = <<>>
    /\ pc' = "done"
    /\ out' = "complete"
    /\ UNCHANGED <<i, elem, netVars, bfsVars, dfsVars>>

\* ------------------------- the depth-first variant of the same exploration
\* compute_explicit_reachability with queue.pop() for queue.popleft(), run on
\* the same net once the breadth-first run has returned.
DfsStart ==
    /\ pc = "done"
    /\ dfs_pc = "idle"
    /\ dfs_pc' = "loop"
    /\ dfs_stack' = <<get_initial_marking_tuple>>
    /\ dfs_visited' = {get_initial_marking_tuple}
    /\ dfs_discovered' = <<get_initial_marking_tuple>>
    /\ dfs_expanded' = <<>>
    /\ UNCHANGED <<pc, parseVars, netVars, bfsVars>>

DfsIteration ==
    /\ dfs_pc = "loop"
    /\ dfs_stack # <<>>
    /\ LET popped == Pop(dfs_stack)
           after == Expand(popped.item, get_enabled_transitions(popped.item),
                           dfs_visited, popped.rest, dfs_discovered)
       IN /\ dfs_visited' = after.visited
          /\ dfs_stack' = after.frontier
          /\ dfs_discovered' = after.order
          /\ dfs_expanded' = Append(dfs_expanded, popped.item)
    /\ UNCHANGED <<pc, dfs_pc, parseVars, netVars, bfsVars>>

DfsExit ==
    /\ dfs_pc = "loop"
    /\ dfs_stack = <<>>
    /\ dfs_pc' = "done"
    /\ UNCHANGED <<pc, dfs_visited, dfs_stack, dfs_discovered, dfs_expanded,
                   parseVars, netVars, bfsVars>>

\* ---------------------------------------------------------- specification
Init ==
    /\ pc = "start"
    /\ i = 0
    /\ elem = NoId
    /\ out = "none"
    /\ places = <<>>
    /\ place_keys = <<>>
    /\ transitions = <<>>
    /\ sorted_place_ids = <<>>
    /\ place_id_to_index = <<>>
    /\ visited_markings = {}
    /\ queue = <<>>
    /\ discovered = <<>>
    /\ expanded = <<>>
    /\ dfs_pc = "idle"
    /\ dfs_visited = {}
    /\ dfs_stack = <<>>
    /\ dfs_discovered = <<>>
    /\ dfs_expanded = <<>>

Next ==
    \/ OpenDocument
    \/ ParsePlace
    \/ EndPlaces
    \/ ParseTransition
    \/ EndTransitions
    \/ ParseArc
    \/ FinalizeStructure
    \/ StartExploration
    \/ LoopIteration
    \/ LoopExit

\* The program: parse_pnml, then compute_explicit_reachability.
Spec == Init /\ [][Next]_vars

\* The program is sequential and nothing blocks it: while the exploration
\* loop can take its next step (another iteration, or the exit), it takes it.
LiveSpec == Spec /\ WF_vars(LoopIteration \/ LoopExit)

NextDfs ==
    \/ Next
    \/ DfsStart
    \/ DfsIteration
    \/ DfsExit

\* The program followed by the depth-first variant on the same net.
SpecDfs == Init /\ [][NextDfs]_vars

NextArrival ==
    \/ OpenDocument
    \/ ParsePlaceAnyOrder
    \/ EndPlaces
    \/ ParseTransition
    \/ EndTransitions
    \/ FinalizeStructure
    \/ StartExploration

\* parse_pnml on documents without arcs whose places arrive in any order, up
\* to the first call of get_initial_marking_tuple. (The arc loop neither reads
\* nor writes the order of the places.)
SpecArrival == Init /\ [][NextArrival]_vars

\* ------------------------------------------------- the net, read as a net
\* The definitions below state what the claims speak of (places, enabledness,
\* the firing rule, reachability) from the net's tables alone, without the
\* methods of PetriNet.
Finalized == pc \in {"parsed", "loop", "done"}

Exploring == pc \in {"loop", "done"}

NumPlaces == Cardinality(DOMAIN places)

Markings == [1..NumPlaces -> {0, 1}]

\* Position (from 1) of a place in the place order: the places with a smaller id.
PositionOf(place_id) == Cardinality({p \in DOMAIN places : p < place_id}) + 1

PositionsOf(place_list) == {PositionOf(place_list[k]) : k \in DOMAIN place_list}

InitialMarking ==
    [k \in 1..NumPlaces |->
        IF \E p \in DOMAIN places : PositionOf(p) = k /\ places[p] = 1
        THEN 1 ELSE 0]

IsEnabled(marking, transition) ==
    \A k \in PositionsOf(transition.inputs) : marking[k] = 1

\* Firing rule of a 1-safe net with set semantics: outputs win over inputs.
Fired(marking, transition) ==
    [k \in 1..NumPlaces |->
        IF k \in PositionsOf(transition.outputs) THEN 1
        ELSE IF k \in PositionsOf(transition.inputs) THEN 0
        ELSE marking[k]]

OneStep(S) ==
    S \cup {Fired(m, transitions[k]) :
              <<m, k>> \in {mk \in S \X DOMAIN transitions :
                              IsEnabled(mk[1], transitions[mk[2]])}}

RECURSIVE Closure(_)
Closure(S) == LET T == OneStep(S) IN IF T = S THEN S ELSE Closure(T)

\* The markings obtainable from the initial marking by firing enabled
\* transitions any finite number of times.
ReachableMarkings == Closure({InitialMarking})

WellFormed(marking) ==
    /\ DOMAIN marking = 1..NumPlaces
    /\ \A k \in DOMAIN marking : marking[k] \in {0, 1}

Range(seq) == {seq[k] : k \in DOMAIN seq}

\* ------------------------------------------------------------------ claims

\* C1: when compute_explicit_reachability has terminated, the returned visited
\* set is exactly the set of markings reachable from the initial marking by
\* firing enabled transitions: none is missing and none is extra.
C1_VisitedIsReachableSet ==
    pc = "done" => visited_markings = ReachableMarkings

\* C1 witness: a terminated run over a net whose initial marking has two
\* different successors (branching), all of them in the returned set.
C1_Witness ==
    /\ pc = "done"
    /\ Cardinality(OneStep({InitialMarking})) >= 3
    /\ Cardinality(visited_markings) >= 3

\* C2: the exploration loop does not run forever, also on nets whose marking
\* graph has cycles: from some point on the program is no longer in the loop,
\* and it leaves the loop only by halting with the queue empty.
C2_ExplorationTerminates ==
    /\ <>[](pc # "loop")
    /\ [][(pc = "loop" /\ pc' # "loop") => (pc' = "done" /\ queue' = <<>>)]_vars

\* C2 witness: a terminated run over a net with a cycle between two different
\* reachable markings.
C2_Witness ==
    /\ pc = "done"
    /\ \E m1 \in visited_markings, m2 \in visited_markings :
          /\ m1 # m2
          /\ m2 \in OneStep({m1})
          /\ m1 \in OneStep({m2})

\* C3: in every state of the exploration the visited set is non-empty, holds
\* the initial marking and has at most 2^(number of places) elements.
C3_VisitedBounds ==
    Exploring =>
        /\ visited_markings # {}
        /\ InitialMarking \in visited_markings
        /\ Cardinality(visited_markings) <= 2 ^ NumPlaces

\* C3 witness: an exploration of a net with two places that has found all
\* four markings, so the bound is attained.
C3_Witness ==
    /\ Exploring
    /\ NumPlaces >= 2
    /\ Cardinality(visited_markings) = 2 ^ NumPlaces

\* C4: for every marking and every transition enabled in it, the successor
\* returned by fire_transition has bit 1 at every output place of the
\* transition (also at one that is an input too) and bit 0 at every input
\* place that is not an output place. Stated of every net parse_pnml returns
\* (nothing changes the net afterwards).
C4_FireClearsInputsSetsOutputs ==
    pc = "parsed" =>
        \A m \in Markings :
            \A k \in DOMAIN transitions :
                IsEnabled(m, transitions[k]) =>
                    LET t == transitions[k]
                        successor == fire_transition(m, t)
                    IN /\ \A o \in PositionsOf(t.outputs) : successor[o] = 1
                       /\ \A n \in PositionsOf(t.inputs) \ PositionsOf(t.outputs) :
                             successor[n] = 0

\* C4 witness: a finalized net with a transition that has one place as input
\* and as output, and a marking in which that transition is enabled.
C4_Witness ==
    /\ pc = "parsed"
    /\ \E k \in DOMAIN transitions, m \in Markings :
          /\ PositionsOf(transitions[k].inputs)
                \cap PositionsOf(transitions[k].outputs) # {}
          /\ IsEnabled(m, transitions[k])

\* C5: for every marking, get_enabled_transitions returns exactly the
\* transitions all of whose input places are marked, each once: one without
\* input places is always returned, and marked output places change nothing.
\* Stated of every net parse_pnml returns.
C5_EnabledIffInputsMarked ==
    pc = "parsed" =>
        \A m \in Markings :
            LET enabled == get_enabled_transitions(m) IN
            /\ {enabled[k].id : k \in DOMAIN enabled}
                 = {transitions[k].id : k \in {j \in DOMAIN transitions :
                                                IsEnabled(m, transitions[j])}}
            /\ \A j, k \in DOMAIN enabled :
                  enabled[j].id = enabled[k].id => j = k

\* C5 witness: a finalized net with a transition without input places and a
\* transition whose output place may already be marked when it is enabled.
C5_Witness ==
    /\ pc = "parsed"
    /\ \E k \in DOMAIN transitions : transitions[k].inputs = <<>>
    /\ \E k \in DOMAIN transitions, m \in Markings :
          /\ transitions[k].inputs # <<>>
          /\ IsEnabled(m, transitions[k])
          /\ \E o \in PositionsOf(transitions[k].outputs) : m[o] = 1

\* C6: an explorer that takes the newest marking of the frontier instead of
\* the oldest terminates with the same visited set as the breadth-first one;
\* only the order of discovery may differ.
C6_DepthFirstSameSet ==
    dfs_pc = "done" =>
        /\ pc = "done"
        /\ dfs_visited = visited_markings
        /\ Range(dfs_discovered) = Range(discovered)
        /\ Len(dfs_discovered) = Len(discovered)

\* C6 witness: both runs have terminated on the same net, with all four
\* markings of two places, and expanded the markings in different orders.
C6_Witness ==
    /\ dfs_pc = "done"
    /\ pc = "done"
    /\ dfs_expanded # expanded
    /\ Cardinality(dfs_visited) >= 4

UnknownMessages == {"unknown_source", "unknown_target"}

\* The <arc> elements that carry all attributes and name a source or a target
\* that is in neither table.
UnknownEndpointArcs ==
    {a \in ArcElems :
        /\ a[1] # NoId /\ a[2] # NoId /\ a[3] # NoId
        /\ \/ a[2] \notin DOMAIN places \cup TransKeys(transitions)
           \/ a[3] \notin DOMAIN places \cup TransKeys(transitions)}

\* C7 as claimed: once an arc with an unknown source or target id has been
\* met (the error line about it is the last line printed), construction fails
\* and yields no net.
C7_UnknownArcFailsConstruction ==
    [][(pc = "arcs" /\ out \in UnknownMessages) => pc' # "parsed"]_vars

\* C7 as amended: an arc that names an unknown source or target id does not
\* make construction fail. It is skipped with an error line: the loop body
\* adds nothing to any transition for it, the step on which the error line
\* appears leaves the tables as they are and stays in the arc loop, and the
\* arc loop is only ever left by returning the net.
C7_UnknownArcSkipped ==
    /\ [](pc = "arcs" =>
            \A a \in UnknownEndpointArcs :
                /\ ConnectArc(places, transitions, a[1], a[2], a[3]) = transitions
                /\ ArcMessage(places, transitions, a[1], a[2], a[3], out)
                     \in UnknownMessages)
    /\ [][(pc = "arcs" /\ out \notin UnknownMessages /\ out' \in UnknownMessages)
            => (/\ i' = i + 1
                /\ transitions' = transitions
                /\ places' = places
                /\ pc' = "arcs")]_vars
    /\ [][pc = "arcs" => pc' \in {"arcs", "parsed"}]_vars

\* C7 witness: an arc with an unknown endpoint has been reported and skipped,
\* the arc loop is still running, and the net holds a connected arc.
C7_Witness ==
    /\ pc = "arcs"
    /\ out \in UnknownMessages
    /\ i >= 2
    /\ \E k \in DOMAIN transitions :
          transitions[k].inputs # <<>> \/ transitions[k].outputs # <<>>

\* C8 as claimed: a <place> or <transition> element whose id is already in
\* its table is rejected with a ValidationError: construction does not go on
\* and no later definition replaces an earlier one.
C8_DuplicateIdRejected ==
    [][((/\ pc = "places" /\ i' = i + 1 /\ elem' \in DOMAIN places)
        \/ (/\ pc = "transitions" /\ i' = i + 1
            /\ elem' \in TransKeys(transitions)))
       => (/\ pc' = "ValidationError"
           /\ places' = places
           /\ transitions' = transitions)]_vars

\* C9: at every point of the exploration every marking in the visited set is
\* reachable from the initial marking by firing enabled transitions.
C9_VisitedAlwaysReachable ==
    Exploring => visited_markings \subseteq ReachableMarkings

\* C9 witness: the exploration is under way, markings are still waiting in
\* the queue, and the visited set is a proper part of the reachable set.
C9_Witness ==
    /\ pc = "loop"
    /\ queue # <<>>
    /\ Cardinality(visited_markings) >= 2
    /\ visited_markings # ReachableMarkings

\* C10: every marking the explorer creates (the initial marking and every
\* successor produced by fire_transition during the exploration) has one entry
\* per place and every entry is 0 or 1.
C10_MarkingsWellFormed ==
    /\ Finalized => WellFormed(get_initial_marking_tuple)
    /\ Exploring =>
          /\ \A m \in visited_markings \cup Range(queue) \cup Range(discovered) :
                WellFormed(m)
          /\ \A m \in visited_markings :
                LET enabled == get_enabled_transitions(m) IN
                \A k \in DOMAIN enabled : WellFormed(fire_transition(m, enabled[k]))

\* C10 witness: a terminated exploration with several markings of a net one
\* of whose places was given an initial marking other than 0 and 1.
C10_Witness ==
    /\ pc = "done"
    /\ \E p \in DOMAIN places : places[p] \notin {0, 1}
    /\ Cardinality(visited_markings) >= 2

\* The orders in which the places of the place table can have arrived.
ArrivalOrders ==
    {o \in [1..Len(place_keys) -> Range(place_keys)] :
        Range(o) = Range(place_keys)}

\* C11: whatever the order in which the places of a document arrived, every
\* other order of arrival of the same places (same ids, same initial bits)
\* gives the same place order, the same id-to-index map and the same
\* initial marking.
C11_ArrivalOrderIndependent ==
    pc = "parsed" =>
        \A o \in ArrivalOrders :
            /\ sorted(o) = sorted_place_ids
            /\ Enumerate(sorted(o)) = place_id_to_index
            /\ SetInitialBits([k \in 1..Len(sorted(o)) |-> 0], o)
                 = get_initial_marking_tuple

\* C11 witness: a returned net whose places did not arrive in ascending
\* order of their ids, one of them marked and one not.
C11_Witness ==
    /\ pc = "parsed"
    /\ place_keys # sorted_place_ids
    /\ \E p, q \in DOMAIN places : places[p] = 1 /\ places[q] = 0

NoDuplicates(seq) == \A j, k \in DOMAIN seq : seq[j] = seq[k] => j = k

\* C12: during a run of compute_explicit_reachability no marking is appended
\* to the queue twice and none is popped (expanded) twice; every marking in
\* the queue is in the visited set and the queue never holds a marking twice.
C12_EachMarkingQueuedOnce ==
    Exploring =>
        /\ NoDuplicates(discovered)
        /\ NoDuplicates(expanded)
        /\ NoDuplicates(queue)
        /\ Range(queue) \subseteq visited_markings

\* C12 witness: the loop has expanded a marking one of whose successors had
\* been visited before (it was not appended again), and markings are waiting.
C12_Witness ==
    /\ pc = "loop"
    /\ queue # <<>>
    /\ Len(expanded) >= 2
    /\ \E m \in Range(expanded) :
          \E n \in OneStep({m}) \ {m} : n \in Range(expanded)

\* The least number of firings that leads from the markings of S to m, counted
\* from k; -1 when m cannot be reached.
RECURSIVE DistanceFrom(_, _, _)
DistanceFrom(S, m, k) ==
    IF m \in S THEN k
    ELSE LET T == OneStep(S) IN
         IF T = S THEN -1 ELSE DistanceFrom(T, m, k + 1)

Distance(m) == DistanceFrom({InitialMarking}, m, 0)

\* The successors of a marking, one per transition enabled in it, in the
\* order of the transition table.
Successors(m) ==
    LET enabled == SelectSeq(transitions, LAMBDA t : IsEnabled(m, t)) IN
    [k \in DOMAIN enabled |-> Fired(m, enabled[k])]

\* The entries of seq that are not in seen and not earlier in seq, in order.
RECURSIVE Fresh(_, _)
Fresh(seq, seen) ==
    IF seq = <<>> THEN <<>>
    ELSE IF Head(seq) \in seen THEN Fresh(Tail(seq), seen)
    ELSE <<Head(seq)>> \o Fresh(Tail(seq), seen \cup {Head(seq)})

\* The order of discovery that results from expanding the markings of pops one
\* after the other, each appending its new successors in transition order.
RECURSIVE DiscoveryOrder(_, _)
DiscoveryOrder(pops, order) ==
    IF pops = <<>> THEN order
    ELSE DiscoveryOrder(Tail(pops),
                        order \o Fresh(Successors(Head(pops)), Range(order)))

\* C13: markings are expanded in breadth-first order. The queue is served
\* first-in first-out (the markings popped so far, followed by those waiting,
\* are the markings in their order of appending); the popped markings are in
\* non-decreasing order of their least number of firings from the initial
\* marking; and each popped marking appended its new successors in the order
\* in which the enabled transitions are iterated.
C13_BreadthFirstOrder ==
    Exploring =>
        /\ discovered = expanded \o queue
        /\ \A j, k \in DOMAIN expanded :
              j < k => /\ Distance(expanded[j]) >= 0
                       /\ Distance(expanded[j]) <= Distance(expanded[k])
        /\ discovered = DiscoveryOrder(expanded, <<InitialMarking>>)

\* C13 witness: a terminated run in which the initial marking had two new
\* successors and a marking two firings away was expanded.
C13_Witness ==
    /\ pc = "done"
    /\ Cardinality(OneStep({InitialMarking})) >= 3
    /\ \E k \in DOMAIN expanded : Distance(expanded[k]) >= 2

\* C14: the visited set only grows. No step removes a marking from it, and
\* once the exploration has emptied its queue no step changes it.
C14_VisitedOnlyGrows ==
    /\ [][visited_markings \subseteq visited_markings']_vars
    /\ [][(Exploring /\ queue = <<>>)
            => visited_markings' = visited_markings]_vars

\* C14 witness: the exploration has returned with its queue empty after the
\* visited set grew beyond the initial marking.
C14_Witness ==
    /\ pc = "done"
    /\ queue = <<>>
    /\ visited_markings # {InitialMarking}
    /\ Len(expanded) >= 2

\* Every <arc> element over the ids of the model, with or without an id.
AllArcElems == {NoId, SomeArcId} \X EndpointIds \X EndpointIds

HasAllAttributes(a) == a[1] # NoId /\ a[2] # NoId /\ a[3] # NoId

IsPlaceToTransition(a) ==
    HasAllAttributes(a) /\ a[2] \in DOMAIN places /\ a[3] \in TransKeys(transitions)

IsTransitionToPlace(a) ==
    HasAllAttributes(a) /\ a[2] \in TransKeys(transitions) /\ a[3] \in DOMAIN places

\* The transition table with arc a taken in: a place->transition arc adds its
\* place to the inputs of its transition, a transition->place arc adds its
\* place to the outputs of its transition, any other arc adds nothing.
Connected(a) ==
    [k \in DOMAIN transitions |->
        IF IsPlaceToTransition(a) /\ transitions[k].id = a[3]
        THEN [id |-> transitions[k].id,
              inputs |-> transitions[k].inputs \o <<a[2]>>,
              outputs |-> transitions[k].outputs]
        ELSE IF IsTransitionToPlace(a) /\ transitions[k].id = a[2]
        THEN [id |-> transitions[k].id,
              inputs |-> transitions[k].inputs,
              outputs |-> transitions[k].outputs \o <<a[3]>>]
        ELSE transitions[k]]

\* The arcs that join a place of the place table and a transition of the
\* transition table, in either direction.
ConnectingArcElems ==
    ({SomeArcId} \X (DOMAIN places) \X TransKeys(transitions))
    \cup ({SomeArcId} \X TransKeys(transitions) \X (DOMAIN places))

\* C15: whatever arcs a document holds, every element of the inputs and of the
\* outputs of every transition is a place of the place table; the arc loop
\* adds a place to the inputs of a transition only for a place->transition
\* arc and to the outputs only for a transition->place arc; an arc with a
\* missing attribute, an unknown endpoint or two endpoints of the same kind
\* adds nothing, and after any arc the loop goes on with the next one.
C15_ArcsBipartite ==
    /\ [](pc \in {"arcs", "parsed", "loop", "done"} =>
            \A k \in DOMAIN transitions :
                Range(transitions[k].inputs) \cup Range(transitions[k].outputs)
                    \subseteq DOMAIN places)
    /\ [](pc = "arcs" =>
            LET connecting == ConnectingArcElems IN
            \A a \in AllArcElems :
                ConnectArc(places, transitions, a[1], a[2], a[3])
                  = IF a \in connecting THEN Connected(a) ELSE transitions)
    /\ [][(pc = "arcs" /\ i' = i + 1) =>
            /\ pc' = "arcs"
            /\ places' = places
            /\ \/ transitions' = transitions
               \/ \E a \in ConnectingArcElems : transitions' = Connected(a)]_vars

\* C15 witness: the arc loop has connected an arc and then skipped one with a
\* missing attribute or with two endpoints of the same kind, and is running.
C15_Witness ==
    /\ pc = "arcs"
    /\ i >= 2
    /\ out \in {"incomplete", "invalid"}
    /\ \E k \in DOMAIN transitions :
          transitions[k].inputs # <<>> \/ transitions[k].outputs # <<>>

\* C16: every net parse_pnml returns is finalized. The id-to-index map is a
\* bijection from the place ids onto 0..n-1, n the number of places, and the
\* place order holds every place p at position index_of(p).
C16_IndexIsBijection ==
    Finalized =>
        /\ DOMAIN place_id_to_index = DOMAIN places
        /\ {place_id_to_index[p] : p \in DOMAIN places} = 0..(NumPlaces - 1)
        /\ \A p, q \in DOMAIN places :
              place_id_to_index[p] = place_id_to_index[q] => p = q
        /\ Len(sorted_place_ids) = NumPlaces
        /\ \A p \in DOMAIN places :
              sorted_place_ids[place_id_to_index[p] + 1] = p

\* C16 witness: a returned net with as many places as the model has place
\* ids, the first place that arrived being the last of the place order.
C16_Witness ==
    /\ pc = "parsed"
    /\ NumPlaces = NumPlaceIds
    /\ place_keys[1] = sorted_place_ids[NumPlaces]

\* A marking holds the initial bits: at each position the bit of the place at
\* that position of the place order, for the places whose initial marking is
\* 0 or 1.
HoldsInitialBits(marking) ==
    /\ Len(marking) = Len(sorted_place_ids)
    /\ \A k \in 1..Len(sorted_place_ids) :
          /\ places[sorted_place_ids[k]] = 1 => marking[k] = 1
          /\ places[sorted_place_ids[k]] = 0 => marking[k] = 0

\* C17: the marking get_initial_marking_tuple returns has at each position
\* the initial bit of the place at that position of the place order: 1 when
\* the initial marking of the place is 1, 0 when it is 0. This holds of the
\* value computed from a returned net and of the value the exploration
\* starts from.
C17_InitialMarkingBits ==
    /\ pc = "parsed" => HoldsInitialBits(get_initial_marking_tuple)
    /\ Exploring => HoldsInitialBits(discovered[1])

\* C17 witness: the exploration has started from the initial marking of a net
\* with a marked and an unmarked place that did not arrive in place order.
C17_Witness ==
    /\ pc = "loop"
    /\ expanded = <<>>
    /\ place_keys # sorted_place_ids
    /\ \E p, q \in DOMAIN places : places[p] = 1 /\ places[q] = 0

\* The positions of the places a transition is connected to.
Touched(transition) ==
    PositionsOf(transition.inputs) \cup PositionsOf(transition.outputs)

\* C18: fire_transition(m, t) differs from m only at positions of input or
\* output places of t. It changes nothing else: an iteration of the loop
\* leaves the net as it is, keeps every visited marking, and what it adds to
\* the visited set is the successors of the one popped marking, each
\* transition enabled in it fired from that same marking.
C18_FireTouchesOnlyItsPlaces ==
    /\ [](pc = "parsed" =>
            \A m \in Markings :
                \A k \in DOMAIN transitions :
                    \A n \in (1..NumPlaces) \ Touched(transitions[k]) :
                        fire_transition(m, transitions[k])[n] = m[n])
    /\ [][(pc = "loop" /\ queue # <<>>) =>
            /\ UNCHANGED netVars
            /\ visited_markings'
                 = visited_markings \cup Range(Successors(Head(queue)))]_vars

\* C18 witness: a marking has been expanded in which two transitions were
\* enabled, each leading to a marking of its own and each leaving marked a
\* place it is not connected to.
C18_Witness ==
    /\ Exploring
    /\ \E m \in Range(expanded) :
          \E j, k \in DOMAIN transitions :
              /\ IsEnabled(m, transitions[j])
              /\ IsEnabled(m, transitions[k])
              /\ Cardinality({m, Fired(m, transitions[j]),
                                 Fired(m, transitions[k])}) = 3
              /\ \E n \in (1..NumPlaces) \ Touched(transitions[j]) : m[n] = 1
              /\ \E n \in (1..NumPlaces) \ Touched(transitions[k]) : m[n] = 1

\* C19: at the start of every iteration of the exploration loop, and when the
\* loop has ended, every visited marking that is not waiting in the queue has
\* all its one-step successors in the visited set; so with the queue empty
\* the visited set is closed under firing.
C19_ExpandedMarkingsClosed ==
    Exploring =>
        /\ \A m \in visited_markings \ Range(queue) :
              OneStep({m}) \subseteq visited_markings
        /\ queue = <<>> => OneStep(visited_markings) = visited_markings

\* C19 witness: an iteration is about to start with markings expanded before
\* it and a marking waiting in the queue that has a successor not yet visited.
C19_Witness ==
    /\ pc = "loop"
    /\ expanded # <<>>
    /\ Cardinality(visited_markings) >= 3
    /\ \E m \in Range(queue) : ~(OneStep({m}) \subseteq visited_markings)

====
